---- MODULE Spec2Model ----
(***************************************************************************)
(* NegativeSampler (python/dgl/graphbolt/negative_sampler.py): a Mapper    *)
(* stage that, for each minibatch of positive node pairs, calls the        *)
(* pluggable _sample_with_etype once per edge type and collates the        *)
(* negative pairs into the minibatch according to the output format.       *)
(***************************************************************************)
EXTENDS Integers, Sequences, FiniteSets

\* ------------------------------------------------------------------ bounds
MaxPos == 2        \* most positive pairs of one edge type
MaxRatio == 2      \* largest negative_ratio given to the constructor

\* ------------------------------------------------------------------ values
\* Python's None.
None == [kind |-> "None"]
\* A 1-D tensor, a 2-D tensor (rows of ncols entries), a (src, dst) tuple of
\* 1-D tensors, and a dict kept as its items in insertion order.
Tensor(s) == [kind |-> "tensor", data |-> s]
Tensor2d(rows, ncols) == [kind |-> "tensor2d", rows |-> rows, ncols |-> ncols]
Pair(src, dst) == [kind |-> "tuple", src |-> src, dst |-> dst]
Dict(items) == [kind |-> "dict", items |-> items]
EmptyDict == Dict(<<>>)

\* etype=None, the default of _sample_with_etype and _collate.
NoEtype == "None"
Etypes == {"A", "B"}

\* LinkPredictionEdgeFormat, and one tag outside the enumeration.
INDEPENDENT == "INDEPENDENT"
CONDITIONED == "CONDITIONED"
HEAD_CONDITIONED == "HEAD_CONDITIONED"
TAIL_CONDITIONED == "TAIL_CONDITIONED"
LinkPredictionEdgeFormat ==
    {INDEPENDENT, CONDITIONED, HEAD_CONDITIONED, TAIL_CONDITIONED}
OtherFormat == "OTHER"
FormatArgs == LinkPredictionEdgeFormat \cup {OtherFormat}
RatioArgs == (0 - 1)..MaxRatio
\* The class the object is built from: the base class, whose
\* _sample_with_etype raises, or a subclass that overrides it.
GeneratorArgs == {"base", "subclass"}

\* ------------------------------------------------------------ dict helpers
IsMapping(v) == v.kind = "dict"

Keys(d) == [i \in 1..Len(d.items) |-> d.items[i].key]
KeySet(d) == {d.items[i].key : i \in 1..Len(d.items)}

\* d[key]
GetItem(d, key) ==
    LET i == CHOOSE j \in 1..Len(d.items) : d.items[j].key = key
    IN  d.items[i].val

\* Variant: the assignment rebinds the field to a fresh one-entry dict.
SetItemFresh(d, key, v) == Dict(<<[key |-> key, val |-> v]>>)

\* d[key] = v: an existing key keeps its place, a new key is appended.
SetItem(d, key, v) ==
    IF key \in KeySet(d)
    THEN Dict([i \in 1..Len(d.items) |->
                 IF d.items[i].key = key THEN [key |-> key, val |-> v]
                                         ELSE d.items[i]])
    ELSE Dict(Append(d.items, [key |-> key, val |-> v]))

\* Variant: the items are visited last to first.
IterItemReversed(d, it) == d.items[Len(d.items) + 1 - it]

\* The it-th (etype, pos_pairs) of node_pairs.items().
IterItem(d, it) == d.items[it]

\* Variant: the loop is left after its first iteration.
LoopDoneAfterFirst(d, it) == it > 1 \/ it > Len(d.items)

\* The for loop over node_pairs.items() is exhausted.
LoopDone(d, it) == it > Len(d.items)

\* ----------------------------------------------------------- torch helpers
ones_like(t) == [i \in 1..Len(t) |-> 1]
zeros_like(t) == [i \in 1..Len(t) |-> 0]
cat(a, b) == a \o b

\* Variant: the reshape fills column by column.
viewColumnMajor(t, ncols) ==
    Tensor2d([i \in 1..(Len(t) \div ncols) |->
                [j \in 1..ncols |-> t[(j - 1) * (Len(t) \div ncols) + i]]], ncols)

\* t.view(-1, ncols) fails unless ncols divides the number of elements.
ViewFails(t, ncols) == Len(t) % ncols # 0
\* t.view(-1, ncols): row-major, row i holds t[i*ncols .. (i+1)*ncols - 1].
view(t, ncols) ==
    Tensor2d([i \in 1..(Len(t) \div ncols) |->
                [j \in 1..ncols |-> t[(i - 1) * ncols + j]]], ncols)

\* ------------------------------------------------------------------ inputs
\* 1-D tensors of consecutive node ids; the entries of one tensor differ, so
\* a misplaced entry shows.
Ramp(n, start) == [i \in 1..n |-> start + i - 1]
PosSrcStarts == {1, 2}
PosDstStarts == {5}
NegSrcStarts == {8, 9}
NegDstStarts == {3}

PosPairs ==
    {Pair(Ramp(n, s), Ramp(n, d)) :
        n \in 0..MaxPos, s \in PosSrcStarts, d \in PosDstStarts}

\* The orders in which a mapping can hold its edge types.
KeyOrders ==
    {<<>>} \cup {<<e>> : e \in Etypes}
           \cup {<<e, f>> : <<e, f>> \in {p \in Etypes \X Etypes : p[1] # p[2]}}

NodePairMappings ==
    UNION {{Dict([i \in 1..Len(ks) |-> [key |-> ks[i], val |-> ps[i]]]) :
              ps \in [1..Len(ks) -> PosPairs]} : ks \in KeyOrders}

\* A value left in label / negative_head / negative_tail by an earlier stage.
Stale == Tensor(<<1>>)
MiniBatch(node_pair, label, negative_head, negative_tail) ==
    [node_pair |-> node_pair, label |-> label,
     negative_head |-> negative_head, negative_tail |-> negative_tail]
MiniBatches ==
    {MiniBatch(np, old, old, old) :
        np \in {None} \cup PosPairs \cup NodePairMappings, old \in {None, Stale}}

\* What a subclass's _sample_with_etype may return for n positive pairs: the
\* n*ratio pairs of its contract, or tensors of other lengths.
NegLengths(n, ratio) ==
    {<<n * ratio, n * ratio>>, <<n * ratio + 1, n * ratio + 1>>,
     <<n * ratio + ratio, n * ratio + ratio>>, <<n * ratio, n * ratio + 1>>}
NegPairs(n, ratio) ==
    {Pair(Ramp(l[1], s), Ramp(l[2], d)) :
        l \in NegLengths(n, ratio), s \in NegSrcStarts, d \in NegDstStarts}

\* ------------------------------------------------------------------- state
VARIABLES
    pc,              \* where the object is: "new", "ctor_failed", "ready",
                     \* "single", "loop", "collate", "exit", "returned", "raised"
    negative_ratio,  \* self.negative_ratio (0 until __init__ sets it)
    output_format,   \* self.output_format ("unset" until __init__ sets it)
    generator,       \* which _sample_with_etype the object has
    minibatch,       \* the minibatch _sample is working on
    it,              \* position of the for loop in node_pairs.items()
    etype,           \* the edge type of the current iteration
    neg_pairs,       \* what _sample_with_etype returned, not yet collated
    error,           \* the exception raised, or "none"
    emitted,         \* the Mapper has yielded the minibatch downstream
    given_ratio,     \* history: the negative_ratio argument of __init__
    entry,           \* history: the minibatch as it was on entry
    log              \* history: generator calls and collations, in order

vars == <<pc, negative_ratio, output_format, generator, minibatch, it, etype,
          neg_pairs, error, emitted, given_ratio, entry, log>>

NoMiniBatch == MiniBatch(None, None, None, None)

Init ==
    /\ pc = "new"
    /\ negative_ratio = 0
    /\ output_format = "unset"
    /\ generator = "unset"
    /\ minibatch = NoMiniBatch
    /\ it = 0
    /\ etype = NoEtype
    /\ neg_pairs = None
    /\ error = "none"
    /\ emitted = FALSE
    /\ given_ratio = 0
    /\ entry = NoMiniBatch
    /\ log = <<>>

\* ---------------------------------------------------------------- __init__
\* Variant: the assertion lets zero through.
RatioAcceptedNonNegative(ratio) == ratio >= 0

\* assert negative_ratio > 0
RatioAccepted(ratio) == ratio > 0

__init__ ==
    /\ pc = "new"
    /\ \E ratio \in RatioArgs, format \in FormatArgs, gen \in GeneratorArgs :
        /\ given_ratio' = ratio
        /\ generator' = gen
        /\ IF RatioAccepted(ratio)
           THEN /\ negative_ratio' = ratio
                /\ output_format' = format
                /\ pc' = "ready"
                /\ error' = "none"
           ELSE /\ pc' = "ctor_failed"
                /\ error' = "AssertionError"
                /\ UNCHANGED <<negative_ratio, output_format>>
    /\ UNCHANGED <<minibatch, it, etype, neg_pairs, emitted, entry, log>>

\* ----------------------------------------------------------------- _sample
\* Variant: label is reset under every format.
InitLabelAlways(format, label) == EmptyDict

\* The containers _sample resets before the loop over a mapping.
InitLabel(format, label) ==
    IF format = INDEPENDENT THEN EmptyDict ELSE label
InitNegative(format, negative) ==
    IF format = INDEPENDENT THEN negative ELSE EmptyDict

\* _sample up to the loop or the single call: the Mapper hands it the next
\* minibatch of the datapipe.
Sample_Enter ==
    /\ pc = "ready"
    /\ \E mb \in MiniBatches :
        /\ entry' = mb
        /\ IF mb.node_pair = None
           THEN /\ pc' = "raised"
                /\ error' = "AssertionError"
                /\ minibatch' = mb
           ELSE /\ error' = "none"
                /\ IF IsMapping(mb.node_pair)
                   THEN /\ pc' = "loop"
                        /\ minibatch' =
                             [mb EXCEPT
                                !.label = InitLabel(output_format, @),
                                !.negative_head = InitNegative(output_format, @),
                                !.negative_tail = InitNegative(output_format, @)]
                   ELSE /\ pc' = "single"
                        /\ minibatch' = mb
    /\ it' = 1
    /\ etype' = NoEtype
    /\ neg_pairs' = None
    /\ emitted' = FALSE
    /\ log' = <<>>
    /\ UNCHANGED <<negative_ratio, output_format, generator, given_ratio>>

\* The call self._sample_with_etype(pos_pairs, etype) of one iteration, or
\* self._sample_with_etype(node_pairs) for a bare pair.
Generate(key, pos_pairs) ==
    /\ etype' = key
    /\ IF generator = "base"
       THEN /\ pc' = "raised"
            /\ error' = "NotImplementedError"
            /\ UNCHANGED <<neg_pairs, log>>
       ELSE /\ \E neg \in NegPairs(Len(pos_pairs.src), negative_ratio) :
                /\ neg_pairs' = neg
                /\ log' = Append(log, [op |-> "generate", etype |-> key,
                                        pos |-> pos_pairs, neg |-> neg])
            /\ pc' = "collate"
            /\ UNCHANGED error
    /\ UNCHANGED <<negative_ratio, output_format, generator, minibatch, it,
                   emitted, given_ratio, entry>>

Sample_With_Etype ==
    \/ /\ pc = "loop"
       /\ ~LoopDone(minibatch.node_pair, it)
       /\ LET item == IterItem(minibatch.node_pair, it)
          IN  Generate(item.key, item.val)
    \/ /\ pc = "single"
       /\ Generate(NoEtype, minibatch.node_pair)

\* ---------------------------------------------------------------- _collate
\* Variant: the negative part of the label is sized by the positives.
IndependentLabelByPos(pos_src, neg_src) ==
    cat(ones_like(pos_src), zeros_like(pos_src))

\* label = cat([ones_like(pos_src), zeros_like(neg_src)])
IndependentLabel(pos_src, neg_src) ==
    cat(ones_like(pos_src), zeros_like(neg_src))

\* minibatch.<field>[etype] = v, or minibatch.<field> = v without an etype.
Store(field, key, v) == IF key # NoEtype THEN SetItem(field, key, v) ELSE v

\* _collate(minibatch, neg_pairs, etype): the exception it raises, or the
\* minibatch it leaves.
Collated(mb, neg, key, format, ratio) ==
    LET pos == IF key # NoEtype THEN GetItem(mb.node_pair, key) ELSE mb.node_pair
    IN  IF format = INDEPENDENT
        THEN [error |-> "none",
              mb |-> [mb EXCEPT
                        !.node_pair = Store(@, key, Pair(cat(pos.src, neg.src),
                                                         cat(pos.dst, neg.dst))),
                        !.label = Store(@, key,
                                        Tensor(IndependentLabel(pos.src, neg.src)))]]
        ELSE IF format = CONDITIONED
        THEN IF ViewFails(neg.src, ratio) \/ ViewFails(neg.dst, ratio)
             THEN [error |-> "RuntimeError", mb |-> mb]
             ELSE [error |-> "none",
                   mb |-> [mb EXCEPT
                        !.negative_head = Store(@, key, view(neg.src, ratio)),
                        !.negative_tail = Store(@, key, view(neg.dst, ratio))]]
        ELSE IF format = HEAD_CONDITIONED
        THEN IF ViewFails(neg.src, ratio)
             THEN [error |-> "RuntimeError", mb |-> mb]
             ELSE [error |-> "none",
                   mb |-> [mb EXCEPT
                        !.negative_head = Store(@, key, view(neg.src, ratio)),
                        !.negative_tail = Store(@, key, None)]]
        ELSE IF format = TAIL_CONDITIONED
        THEN IF ViewFails(neg.dst, ratio)
             THEN [error |-> "RuntimeError", mb |-> mb]
             ELSE [error |-> "none",
                   mb |-> [mb EXCEPT
                        !.negative_head = Store(@, key, None),
                        !.negative_tail = Store(@, key, view(neg.dst, ratio))]]
        ELSE [error |-> "TypeError", mb |-> mb]

_collate ==
    /\ pc = "collate"
    /\ LET r == Collated(minibatch, neg_pairs, etype, output_format,
                         negative_ratio)
       IN  IF r.error # "none"
           THEN /\ pc' = "raised"
                /\ error' = r.error
                /\ UNCHANGED <<minibatch, it, log>>
           ELSE /\ minibatch' = r.mb
                /\ log' = Append(log, [op |-> "collate", etype |-> etype])
                /\ IF etype # NoEtype
                   THEN pc' = "loop" /\ it' = it + 1
                   ELSE pc' = "exit" /\ UNCHANGED it
                /\ UNCHANGED error
    /\ neg_pairs' = None
    /\ UNCHANGED <<negative_ratio, output_format, generator, etype, emitted,
                   given_ratio, entry>>

\* ---------------------------------------------------------- end of _sample
\* Variant: the tail mapping is left as the loop filled it.
FinalTailKept(format, negative_tail) == negative_tail

\* if output_format == HEAD_CONDITIONED: minibatch.negative_tail = None
FinalTail(format, negative_tail) ==
    IF format = HEAD_CONDITIONED THEN None ELSE negative_tail
\* if output_format == TAIL_CONDITIONED: minibatch.negative_head = None
FinalHead(format, negative_head) ==
    IF format = TAIL_CONDITIONED THEN None ELSE negative_head

\* The loop is exhausted (or the single _collate is done): _sample returns
\* the minibatch, which the Mapper yields.
Sample_Return ==
    /\ \/ /\ pc = "loop"
          /\ LoopDone(minibatch.node_pair, it)
          /\ minibatch' =
               [minibatch EXCEPT
                  !.negative_tail = FinalTail(output_format, @),
                  !.negative_head = FinalHead(output_format, @)]
       \/ /\ pc = "exit"
          /\ UNCHANGED minibatch
    /\ pc' = "returned"
    /\ emitted' = TRUE
    /\ UNCHANGED <<negative_ratio, output_format, generator, it, etype,
                   neg_pairs, error, given_ratio, entry, log>>

\* The Mapper is asked for the next item: nothing of the last one is kept.
NextItem ==
    /\ pc = "returned"
    /\ pc' = "ready"
    /\ minibatch' = NoMiniBatch
    /\ entry' = NoMiniBatch
    /\ it' = 0
    /\ etype' = NoEtype
    /\ emitted' = FALSE
    /\ log' = <<>>
    /\ UNCHANGED <<negative_ratio, output_format, generator, neg_pairs, error,
                   given_ratio>>

Next ==
    \/ __init__
    \/ Sample_Enter
    \/ Sample_With_Etype
    \/ _collate
    \/ Sample_Return
    \/ NextItem

Spec == Init /\ [][Next]_vars

\* ------------------------------------------------------------- properties
Returned == pc = "returned"
Supported == output_format \in LinkPredictionEdgeFormat
EntryIsMapping == IsMapping(entry.node_pair)
\* The edge types of the minibatch on entry, in order; a bare pair has the
\* one implicit edge type.
EntryKeys == IF EntryIsMapping THEN Keys(entry.node_pair) ELSE <<NoEtype>>
EntryPos(e) ==
    IF e = NoEtype THEN entry.node_pair ELSE GetItem(entry.node_pair, e)
\* Whether a field of the minibatch has a value for edge type e, and the value.
HasField(f, e) ==
    IF e = NoEtype THEN f.kind # "dict" ELSE f.kind = "dict" /\ e \in KeySet(f)
FieldOf(f, e) == IF e = NoEtype THEN f ELSE GetItem(f, e)
\* The negative pairs the generator returned for edge type e.
Generated(e) ==
    \E i \in 1..Len(log) : log[i].op = "generate" /\ log[i].etype = e
NegOf(e) ==
    log[CHOOSE i \in 1..Len(log) :
            log[i].op = "generate" /\ log[i].etype = e].neg
\* A generator result that keeps the contract for pos: n * negative_ratio
\* pairs.
Conforming(pos, neg) ==
    /\ Len(neg.src) = Len(pos.src) * negative_ratio
    /\ Len(neg.dst) = Len(pos.src) * negative_ratio
AllConforming ==
    \A i \in 1..Len(log) :
        log[i].op = "generate" => Conforming(log[i].pos, log[i].neg)
\* out is first followed by second.
IsConcat(out, first, second) ==
    /\ Len(out) = Len(first) + Len(second)
    /\ \A j \in 1..Len(first) : out[j] = first[j]
    /\ \A j \in 1..Len(second) : out[Len(first) + j] = second[j]
RECURSIVE SumSeq(_)
SumSeq(q) == IF q = <<>> THEN 0 ELSE Head(q) + SumSeq(Tail(q))
\* m is the [n, k] tensor whose element [i, j] is flat[i * k + j] (0-based).
IsRowMajor(m, flat, n, k) ==
    /\ m.kind = "tensor2d"
    /\ Len(m.rows) = n
    /\ m.ncols = k
    /\ \A i \in 0..(n - 1) :
        /\ Len(m.rows[i + 1]) = k
        /\ \A j \in 0..(k - 1) : m.rows[i + 1][j + 1] = flat[i * k + j + 1]

\* C1: under INDEPENDENT, for every relation (or the bare pair) with n
\* positive pairs whose generator returned n*k negative pairs, after transform
\* node_pair src (dst) is the positive src (dst) followed by the negative src
\* (dst), and label has length n*(1+k), n ones then n*k zeros, and sum n.
C1_IndependentCollation ==
    (Returned /\ output_format = INDEPENDENT) =>
        \A x \in 1..Len(EntryKeys) :
            LET e == EntryKeys[x]
                pos == EntryPos(e)
                n == Len(pos.src)
                k == negative_ratio
            IN  (Generated(e) /\ Conforming(pos, NegOf(e))) =>
                    /\ HasField(minibatch.node_pair, e)
                    /\ HasField(minibatch.label, e)
                    /\ LET out == FieldOf(minibatch.node_pair, e)
                           lab == FieldOf(minibatch.label, e)
                       IN  /\ out.kind = "tuple"
                           /\ IsConcat(out.src, pos.src, NegOf(e).src)
                           /\ IsConcat(out.dst, pos.dst, NegOf(e).dst)
                           /\ lab.kind = "tensor"
                           /\ Len(lab.data) = n * (1 + k)
                           /\ \A j \in 1..n : lab.data[j] = 1
                           /\ \A j \in (n + 1)..(n * (1 + k)) : lab.data[j] = 0
                           /\ SumSeq(lab.data) = n

C1_Witness ==
    /\ Returned
    /\ output_format = INDEPENDENT
    /\ negative_ratio = 2
    /\ EntryIsMapping
    /\ Len(EntryKeys) = 2
    /\ AllConforming
    /\ Len(EntryPos(EntryKeys[1]).src) = 2
    /\ Len(EntryPos(EntryKeys[2]).src) = 1

\* C2: under CONDITIONED, with n positive pairs, ratio k and a generator
\* returning flat tensors of length n*k, negative_head and negative_tail have
\* shape [n, k] and element [i, j] is the flat element at index i*k + j.
C2_ConditionedReshape ==
    (Returned /\ output_format = CONDITIONED) =>
        \A x \in 1..Len(EntryKeys) :
            LET e == EntryKeys[x]
                pos == EntryPos(e)
                n == Len(pos.src)
                k == negative_ratio
            IN  (Generated(e) /\ Conforming(pos, NegOf(e))) =>
                    /\ HasField(minibatch.negative_head, e)
                    /\ HasField(minibatch.negative_tail, e)
                    /\ IsRowMajor(FieldOf(minibatch.negative_head, e),
                                  NegOf(e).src, n, k)
                    /\ IsRowMajor(FieldOf(minibatch.negative_tail, e),
                                  NegOf(e).dst, n, k)

C2_Witness ==
    /\ Returned
    /\ output_format = CONDITIONED
    /\ negative_ratio = 2
    /\ ~EntryIsMapping
    /\ Len(entry.node_pair.src) = 2
    /\ AllConforming

\* A populated field: a value, or a mapping all of whose entries are values.
Populated(f) ==
    /\ f # None
    /\ f.kind = "dict" => \A i \in 1..Len(f.items) : f.items[i].val # None

\* C3: after a successful transform under HEAD_CONDITIONED negative_tail is
\* None and negative_head is populated; under TAIL_CONDITIONED negative_head
\* is None and negative_tail is populated; for a bare pair and for a mapping.
C3_NonSelectedSideAbsent ==
    Returned =>
        /\ output_format = HEAD_CONDITIONED =>
              minibatch.negative_tail = None /\ Populated(minibatch.negative_head)
        /\ output_format = TAIL_CONDITIONED =>
              minibatch.negative_head = None /\ Populated(minibatch.negative_tail)

C3_Witness ==
    /\ Returned
    /\ output_format = HEAD_CONDITIONED
    /\ EntryIsMapping
    /\ Len(EntryKeys) = 2
    /\ entry.negative_tail = Stale
    /\ minibatch.negative_tail = None

\* C4: after a successful transform of a mapping, every mapping the format
\* populates (label, negative_head, negative_tail) has the key set of the
\* input node_pair, and node_pair keeps that key set.
C4_SameKeySet ==
    (Returned /\ EntryIsMapping /\ Supported) =>
        LET ks == KeySet(entry.node_pair)
            same(f) == f.kind = "dict" /\ KeySet(f) = ks
        IN  /\ same(minibatch.node_pair)
            /\ output_format = INDEPENDENT => same(minibatch.label)
            /\ output_format \in {CONDITIONED, HEAD_CONDITIONED} =>
                  same(minibatch.negative_head)
            /\ output_format \in {CONDITIONED, TAIL_CONDITIONED} =>
                  same(minibatch.negative_tail)

C4_Witness ==
    /\ Returned
    /\ EntryIsMapping
    /\ output_format = CONDITIONED
    /\ Len(EntryKeys) = 2
    /\ Len(EntryPos(EntryKeys[1]).src) = 0
    /\ Len(EntryPos(EntryKeys[2]).src) = 2
    /\ KeySet(minibatch.negative_head) = Etypes

\* The fields a format writes (the table of the formats).
Row(format) ==
    CASE format = INDEPENDENT -> {"label"}
      [] format = CONDITIONED -> {"negative_head", "negative_tail"}
      [] format = HEAD_CONDITIONED -> {"negative_head"}
      [] format = TAIL_CONDITIONED -> {"negative_tail"}
      [] OTHER -> {}
OutputFields == {"label", "negative_head", "negative_tail"}
PopulatedFields == {f \in OutputFields : minibatch[f] # None}
\* The side a one-sided format sets to None.
Cleared(format) ==
    CASE format = HEAD_CONDITIONED -> {"negative_tail"}
      [] format = TAIL_CONDITIONED -> {"negative_head"}
      [] OTHER -> {}

C6_MismatchRejected ==
    \A i \in 1..Len(log) :
        log[i].op = "collate" =>
            /\ i > 1
            /\ log[i - 1].op = "generate"
            /\ Conforming(log[i - 1].pos, log[i - 1].neg)

\* C7 as stated: with an output format outside the four tags, a transform of
\* a minibatch whose node_pair is present (bare pair, non-empty or empty
\* mapping) ends with the unsupported-format error.
C7_UnsupportedFormatFails ==
    (/\ pc \in {"returned", "raised"}
     /\ output_format = OtherFormat
     /\ generator = "subclass"
     /\ entry.node_pair # None) =>
        pc = "raised" /\ error = "TypeError"

\* C8: construction with negative_ratio <= 0 fails, and whenever a minibatch
\* is being transformed negative_ratio is positive and is the value given at
\* construction.
C8_RatioPositive ==
    /\ (pc # "new" /\ given_ratio <= 0) => pc = "ctor_failed"
    /\ pc = "ctor_failed" => given_ratio <= 0 /\ error = "AssertionError"
    /\ pc \in {"ready", "single", "loop", "collate", "exit", "returned", "raised"} =>
          negative_ratio > 0 /\ negative_ratio = given_ratio
    /\ entry # NoMiniBatch => negative_ratio > 0

C8_Witness ==
    /\ pc = "ctor_failed"
    /\ given_ratio = 0
    /\ entry = NoMiniBatch

\* The edge types collated so far, and those the generator was called for.
CollatedKeys ==
    LET q == SelectSeq(log, LAMBDA ev : ev.op = "collate")
    IN  [i \in 1..Len(q) |-> q[i].etype]
GeneratedKeys ==
    LET q == SelectSeq(log, LAMBDA ev : ev.op = "generate")
    IN  [i \in 1..Len(q) |-> q[i].etype]

\* C9: a transform ends either with every relation collated and the
\* minibatch emitted, or with an error and the minibatch not emitted; no
\* partly collated minibatch is emitted, and the generator is not called
\* twice for a relation.
C9_AllOrNothing ==
    /\ emitted => Returned
    /\ Returned =>
          emitted /\ error = "none" /\ CollatedKeys = EntryKeys
    /\ pc = "raised" =>
          /\ ~emitted
          /\ error \in {"AssertionError", "NotImplementedError", "TypeError",
                        "RuntimeError"}
    /\ \A i, j \in 1..Len(GeneratedKeys) :
          GeneratedKeys[i] = GeneratedKeys[j] => i = j
    /\ pc \in {"single", "loop", "collate", "exit"} => ENABLED Next

C9_Witness ==
    /\ pc = "raised"
    /\ ~emitted
    /\ EntryIsMapping
    /\ Len(EntryKeys) = 2
    /\ CollatedKeys = <<EntryKeys[1]>>
    /\ GeneratedKeys = EntryKeys

\* What the log of a successful transform must be: for each relation in the
\* entry order, the generator call with the entry's positive pairs, then the
\* collation of that relation.
ExpectedLog ==
    [i \in 1..(2 * Len(EntryKeys)) |->
        IF i % 2 = 1
        THEN [op |-> "generate", etype |-> EntryKeys[(i + 1) \div 2],
              pos |-> EntryPos(EntryKeys[(i + 1) \div 2])]
        ELSE [op |-> "collate", etype |-> EntryKeys[i \div 2]]]
ObservedLog ==
    [i \in 1..Len(log) |->
        IF log[i].op = "generate"
        THEN [op |-> "generate", etype |-> log[i].etype, pos |-> log[i].pos]
        ELSE log[i]]

\* C10: in a successful transform the generator is called once per relation
\* in the mapping's order, with the relation's id and its positive pairs as
\* they were on entry, each call followed by that relation's collation before
\* the next call; for a bare pair it is called once with no relation id.
C10_OncePerRelationInOrder ==
    Returned => ObservedLog = ExpectedLog

C10_Witness ==
    /\ Returned
    /\ output_format = INDEPENDENT
    /\ EntryIsMapping
    /\ EntryKeys = <<"B", "A">>
    /\ Len(EntryPos("B").src) = 1
    /\ Len(EntryPos("A").src) = 2
    /\ minibatch.node_pair # entry.node_pair

====
